---- MODULE Spec2Model ----
(***************************************************************************)
(* The three tutorial notebooks of tractometry-ecosystem as sequential     *)
(* scripts over a shared disk:                                             *)
(*   viz  - "Visualizing AFQ derivatives"            (src/unnamed/part_000) *)
(*   slf  - "How to add new bundles into pyAFQ"      (src/unnamed/part_001) *)
(*   reco - "Using RecoBundles for tract delineation"                       *)
(*                                      (src/content/004-RecoBundles.ipynb) *)
(* A notebook is a sequence of statements; one statement is one step.      *)
(* Optional values are sequences of length 0 (None / unbound) or 1.        *)
(***************************************************************************)
EXTENDS Integers, Sequences, FiniteSets, TLC

VARIABLES
    nb,      \* the notebook being executed, or "none"
    pc,      \* index of the next statement of that notebook
    ran,     \* notebooks that ran to their last statement
    failed,  \* notebooks stopped by an exception
    disk,    \* the files that exist
    disk0,   \* the files that existed before any notebook ran
    wcount,  \* per file, how many times a statement of a notebook wrote it
    env,     \* the Python variables of the running kernel
    scene,   \* the fury window.Scene: its actor list and camera
    trace,   \* the statements executed so far by the current notebook
    call,    \* arguments of a pending slice_volume call (stand-alone use)
    ret      \* its return value

vars == <<nb, pc, ran, failed, disk, disk0, wcount, env, scene, trace, call, ret>>

\* Largest size of a volume dimension that is explored.
MaxDim == 2

None == <<>>
Some(v) == <<v>>

(***************************************************************************)
(* Files.                                                                  *)
(***************************************************************************)
File(dir, sub, name, ext) == [dir |-> dir, sub |-> sub, name |-> name, ext |-> ext]

Subject == "NDARAA948VFH"

\* op.join(out_folder, 'arc_cstN.png') with out_folder = afq_home/viz_results
OutFile(name) == File("viz_results", "", name, "png")

VizOutputs ==
    {OutFile("arc_cst1"), OutFile("arc_cst2"), OutFile("arc_cst3"),
     OutFile("arc_cst4"), OutFile("arc_cst_fig")}

\* The files the visualization notebook reads under the fetched study path.
FaFile   == File("hbn_afq", Subject, "DKI_FA", "nii.gz")
ArcFile  == File("hbn_afq", Subject, "ARC_L_tractography", "trk")
CstFile  == File("hbn_afq", Subject, "CST_L_tractography", "trk")
Roi1File == File("hbn_afq", Subject, "ROI-ARC_L-1-include", "nii.gz")
Roi2File == File("hbn_afq", Subject, "ROI-ARC_L-2-include", "nii.gz")
T1wFile  == File("hbn_qsiprep", Subject, "desc-preproc_T1w", "nii.gz")

\* What a dataset fetcher leaves on disk for the subjects it is given.
FetchFiles(fn, subjects) ==
    CASE fn = "fetch_hbn_preproc" ->
         UNION {{File("hbn_qsiprep", subjects[i], "desc-preproc_T1w", "nii.gz"),
                 File("hbn_qsiprep", subjects[i], "desc-preproc_dwi", "nii.gz"),
                 File("hbn_qsiprep", subjects[i], "desc-brain_mask", "nii.gz")}
                : i \in DOMAIN subjects}
      [] fn = "fetch_hbn_afq" ->
         UNION {{File("hbn_afq", subjects[i], "DKI_FA", "nii.gz"),
                 File("hbn_afq", subjects[i], "ARC_L_tractography", "trk"),
                 File("hbn_afq", subjects[i], "CST_L_tractography", "trk"),
                 File("hbn_afq", subjects[i], "ROI-ARC_L-1-include", "nii.gz"),
                 File("hbn_afq", subjects[i], "ROI-ARC_L-2-include", "nii.gz")}
                : i \in DOMAIN subjects}
      [] OTHER ->
         {File("templates", "", "SLFt_roi2_L", "nii.gz")}

\* Data that no notebook fetches and that may or may not be under afq_home.
StanfordFile == File("stanford_hardi", "01", "dwi", "nii.gz")
SlfRoiFiles  == {File("SLF_ROIs", "", "SFgL", "nii.gz"), File("SLF_ROIs", "", "PaL", "nii.gz")}

(***************************************************************************)
(* Actors.  Every actor object carries the statement that created it.      *)
(***************************************************************************)
Actor(kind, obj, width, colors, opacity, extent, created) ==
    [kind |-> kind, obj |-> obj, width |-> width, colors |-> colors,
     opacity |-> opacity, extent |-> extent, created |-> created]

\* lines_as_tubes(sl, line_width, **kwargs): opacity in percent, default 100.
lines_as_tubes(sl, line_width, colors, opacity, created) ==
    Actor("line", sl, line_width, colors, opacity, None, created)

\* actor.contour_from_roi(data, color=..., opacity=...)
contour_from_roi(roi, color, opacity, created) ==
    Actor("contour", roi, 0, color, opacity, None, created)

\* actor.slicer(data): a slicer whose display extent has not been chosen yet.
actor_slicer(obj, created) ==
    Actor("slicer", obj, 0, "gray", 100, None, created)

\* slicer.display_extent(x1, x2, y1, y2, z1, z2)
display_extent(a, x1, x2, y1, y2, z1, z2) ==
    [a EXCEPT !.extent = Some(<<x1, x2, y1, y2, z1, z2>>)]

\* slicer.copy(): a new object with the state of the original.
copy(a, obj) == [a EXCEPT !.obj = obj]

\* "v is not None" with a falsy-value slip: 0 counts as unset.
IsSetTruthy(v) == v # None /\ v[1] # 0

\* "v is not None"
IsSet(v) == v # None

\* data.shape[e] - 1 with an off-by-one slip.
LastIndexOffByOne(data, e) == data[e]

\* data.shape[e] - 1, e counted from 1 here (shape[0] is data[1]).
LastIndex(data, e) == data[e] - 1

\* slice_volume(data, x=None, y=None, z=None); data is the shape of the volume.
slice_volume(data, x, y, z, created) ==
    LET new_z == actor_slicer("slicer_actor_z", created)
        slicer_actor_z ==
            IF IsSet(z)
            THEN display_extent(new_z, 0, LastIndex(data, 1),
                                       0, LastIndex(data, 2), z[1], z[1])
            ELSE new_z
        after_z == IF IsSet(z) THEN <<slicer_actor_z>> ELSE <<>>
        slicer_actor_y ==
            display_extent(copy(slicer_actor_z, "slicer_actor_y"),
                           0, LastIndex(data, 1), y[1], y[1], 0, LastIndex(data, 3))
        after_y == IF IsSet(y) THEN Append(after_z, slicer_actor_y) ELSE after_z
        slicer_actor_x ==
            display_extent(copy(slicer_actor_z, "slicer_actor_x"),
                           x[1], x[1], 0, LastIndex(data, 2), 0, LastIndex(data, 3))
    IN  IF IsSet(x) THEN Append(after_y, slicer_actor_x) ELSE after_y

(***************************************************************************)
(* Statements.  I(line, op, var, args): the statement at `line` of the     *)
(* notebook file, the operation it performs, the variable it binds (or "") *)
(* and the operation's arguments.                                          *)
(***************************************************************************)
I(line, op, var, args) == [line |-> line, op |-> op, var |-> var, args |-> args]

NoArgs == [none |-> TRUE]

\* ---- visualization notebook -------------------------------------------
VizCellFetch ==
    << I(86, "fetch", "", [fn |-> "fetch_hbn_preproc", subjects |-> <<Subject>>]),
       I(87, "fetch", "study_path", [fn |-> "fetch_hbn_afq", subjects |-> <<Subject>>]) >>

VizCellRead ==
    << I(125, "load", "fa_img", [file |-> FaFile]),
       I(128, "load", "sft_arc", [file |-> ArcFile]),
       I(130, "load", "sft_cst", [file |-> CstFile]) >>

VizCellT1w ==
    << I(160, "load", "t1w_img", [file |-> T1wFile]),
       I(165, "compute", "arc_t1w", NoArgs),
       I(167, "compute", "cst_t1w", NoArgs) >>

VizCellLineActors ==
    << I(237, "line_actor", "arc_actor",
         [sl |-> "arc_t1w", line_width |-> 8, colors |-> "rgb_orientation", opacity |-> 100]),
       I(238, "line_actor", "cst_actor",
         [sl |-> "cst_t1w", line_width |-> 8, colors |-> "rgb_orientation", opacity |-> 100]) >>

VizCellSlicers ==
    << I(300, "slice_volume", "slicers", NoArgs) >>

VizCellScene ==
    << I(326, "scene_new", "scene", NoArgs),
       I(328, "scene_add", "", [actor |-> "arc_actor"]),
       I(329, "scene_add", "", [actor |-> "cst_actor"]),
       I(330, "scene_add_each", "", [actors |-> "slicers"]) >>

VizCellCamera ==
    << I(382, "set_camera", "", NoArgs) >>

VizCellRecord1 ==
    << I(413, "record", "", [file |-> OutFile("arc_cst1")]) >>

\* The figure-2 cell with the record statement moved above the scene update.
VizCellFig2RecordFirst ==
    << I(454, "line_actor", "arc_actor",
         [sl |-> "arc_t1w", line_width |-> 8, colors |-> "tab20_18", opacity |-> 100]),
       I(455, "line_actor", "cst_actor",
         [sl |-> "cst_t1w", line_width |-> 8, colors |-> "tab20_2", opacity |-> 100]),
       I(464, "record", "", [file |-> OutFile("arc_cst2")]),
       I(457, "scene_clear", "", NoArgs),
       I(459, "scene_add", "", [actor |-> "arc_actor"]),
       I(460, "scene_add", "", [actor |-> "cst_actor"]),
       I(461, "scene_add_each", "", [actors |-> "slicers"]) >>

VizCellFig2 ==
    << I(454, "line_actor", "arc_actor",
         [sl |-> "arc_t1w", line_width |-> 8, colors |-> "tab20_18", opacity |-> 100]),
       I(455, "line_actor", "cst_actor",
         [sl |-> "cst_t1w", line_width |-> 8, colors |-> "tab20_2", opacity |-> 100]),
       I(457, "scene_clear", "", NoArgs),
       I(459, "scene_add", "", [actor |-> "arc_actor"]),
       I(460, "scene_add", "", [actor |-> "cst_actor"]),
       I(461, "scene_add_each", "", [actors |-> "slicers"]),
       I(464, "record", "", [file |-> OutFile("arc_cst2")]) >>

VizCellFig3 ==
    << I(515, "compute", "core_arc", NoArgs),
       I(516, "compute", "core_cst", NoArgs),
       I(522, "compute", "arc_profile", NoArgs),
       I(523, "compute", "cst_profile", NoArgs),
       I(525, "line_actor", "core_arc_actor",
         [sl |-> "core_arc", line_width |-> 40, colors |-> "viridis_arc_profile", opacity |-> 100]),
       I(531, "line_actor", "core_cst_actor",
         [sl |-> "core_cst", line_width |-> 40, colors |-> "viridis_cst_profile", opacity |-> 100]),
       I(537, "scene_clear", "", NoArgs),
       I(539, "line_actor", "arc_actor",
         [sl |-> "arc_t1w", line_width |-> 8, colors |-> "tab20_18", opacity |-> 10]),
       I(540, "line_actor", "cst_actor",
         [sl |-> "cst_t1w", line_width |-> 8, colors |-> "tab20_2", opacity |-> 10]),
       I(542, "scene_add", "", [actor |-> "arc_actor"]),
       I(543, "scene_add", "", [actor |-> "cst_actor"]),
       I(544, "scene_add_each", "", [actors |-> "slicers"]),
       I(546, "scene_add", "", [actor |-> "core_arc_actor"]),
       I(547, "scene_add", "", [actor |-> "core_cst_actor"]),
       I(549, "record", "", [file |-> OutFile("arc_cst3")]) >>

VizCellFig4 ==
    << I(595, "load", "waypoint1", [file |-> Roi1File]),
       I(600, "load", "waypoint2", [file |-> Roi2File]),
       I(607, "compute", "waypoint1_data", NoArgs),
       I(608, "compute", "waypoint2_data", NoArgs),
       I(610, "scene_clear", "", NoArgs),
       I(612, "line_actor", "arc_actor",
         [sl |-> "arc_t1w", line_width |-> 8, colors |-> "tab20_18", opacity |-> 100]),
       I(613, "line_actor", "cst_actor",
         [sl |-> "cst_t1w", line_width |-> 8, colors |-> "tab20_2", opacity |-> 100]),
       I(615, "scene_add", "", [actor |-> "arc_actor"]),
       I(616, "scene_add", "", [actor |-> "cst_actor"]),
       I(617, "scene_add_each", "", [actors |-> "slicers"]),
       I(622, "contour_actor", "waypoint1_actor",
         [roi |-> "waypoint1_data", color |-> "tab20_0", opacity |-> 50]),
       I(626, "contour_actor", "waypoint2_actor",
         [roi |-> "waypoint2_data", color |-> "tab20_0", opacity |-> 50]),
       I(631, "scene_add", "", [actor |-> "waypoint1_actor"]),
       I(632, "scene_add", "", [actor |-> "waypoint2_actor"]),
       I(635, "record", "", [file |-> OutFile("arc_cst4")]) >>

VizCellPanel ==
    << I(667, "panel_figure", "pf", [a |-> 3, b |-> 2, c |-> 6, d |-> 9]),
       I(668, "add_img", "", [file |-> OutFile("arc_cst1"), x |-> 0, y |-> 0]),
       I(669, "add_img", "", [file |-> OutFile("arc_cst2"), x |-> 1, y |-> 0]),
       I(670, "add_img", "", [file |-> OutFile("arc_cst3"), x |-> 0, y |-> 1]),
       I(671, "add_img", "", [file |-> OutFile("arc_cst4"), x |-> 1, y |-> 1]),
       I(672, "save_figure", "", [file |-> OutFile("arc_cst_fig")]) >>

VizProgram ==
    VizCellFetch \o VizCellRead \o VizCellT1w \o VizCellLineActors \o VizCellSlicers
    \o VizCellScene \o VizCellCamera \o VizCellRecord1 \o VizCellFig2 \o VizCellFig3
    \o VizCellFig4 \o VizCellPanel

\* ---- custom bundle (SLF) notebook --------------------------------------
\* Keyword arguments of GroupAFQ(...); an argument that is not given is None.
GroupAFQArgs(bids_path, preproc_pipeline, participant_labels, output_dir, segmentation_params, bundle_info) ==
    [bids_path |-> bids_path, preproc_pipeline |-> preproc_pipeline,
     participant_labels |-> participant_labels, output_dir |-> output_dir,
     segmentation_params |-> segmentation_params, bundle_info |-> bundle_info]

SlfCellFetch ==
    << I(67, "fetch", "study_dir", [fn |-> "fetch_hbn_preproc", subjects |-> <<Subject>>]) >>

SlfCellBundles ==
    << I(87, "compute", "template_dir", NoArgs),
       I(88, "fetch", "templates_afq", [fn |-> "read_templates", subjects |-> <<>>]),
       I(91, "compute", "bundles", NoArgs) >>

SlfCellGroupAFQ ==
    << I(118, "compute", "brain_mask_definition", NoArgs),
       I(123, "group_afq", "my_afq",
         GroupAFQArgs("hbn_qsiprep", "qsiprep", Some(<<Subject>>), "afq_slf",
                      Some("parallel_segmentation_serial"), Some("bundles"))),
       I(134, "export", "", [obj |-> "my_afq", what |-> "profiles"]) >>

SlfCellMontage ==
    << I(154, "montage", "montage",
         [obj |-> "my_afq", bundle |-> "L_SLF1", rows |-> 3, cols |-> 4]),
       I(155, "load", "", [file |-> File("afq_slf", "", "L_SLF1_montage", "png")]) >>

SlfCellHtml ==
    << I(175, "export", "bundle_html", [obj |-> "my_afq", what |-> "all_bundles_figure"]),
       I(176, "show", "", [obj |-> "my_afq", key |-> Subject]) >>

SlfProgram ==
    SlfCellFetch \o SlfCellBundles \o SlfCellGroupAFQ \o SlfCellMontage \o SlfCellHtml

\* ---- RecoBundles notebook ----------------------------------------------
RecoProgram ==
    << I(61, "group_afq", "myafq",
         GroupAFQArgs("stanford_hardi", "vistasoft", None, "recobundles",
                      None, Some("reco_bd_16"))),
       I(69, "export", "", [obj |-> "myafq", what |-> "profiles"]),
       I(79, "export", "", [obj |-> "myafq", what |-> "all_bundles_figure"]),
       I(79, "show", "", [obj |-> "myafq", key |-> "01"]) >>

Notebooks == {"viz", "slf", "reco"}

Program(n) ==
    CASE n = "viz"  -> VizProgram
      [] n = "slf"  -> SlfProgram
      [] n = "reco" -> RecoProgram
      [] OTHER      -> <<>>

VarNames ==
    UNION {{Program(n)[i].var : i \in DOMAIN Program(n)} : n \in Notebooks} \ {""}

\* Shapes of the T1-weighted volume that are explored.
Shapes == (1..MaxDim) \X (1..MaxDim) \X (1..MaxDim)

\* Optional slice indices that are explored.
Indices == {None} \cup {Some(k) : k \in 0..MaxDim}

\* The disks a notebook may start from: any of the output figures left by an
\* earlier run, the stanford_hardi data or not, the SLF ROI folder or not.
InitialDisks ==
    {a \cup b : a \in SUBSET (VizOutputs \cup {StanfordFile}), b \in {{}, SlfRoiFiles}}

(***************************************************************************)
(* GroupAFQ.                                                               *)
(***************************************************************************)
\* The subjects a GroupAFQ object works on: the participant_labels when
\* given, otherwise every subject found under bids_path.
Subjects(args, d) ==
    IF args.participant_labels # None
    THEN {args.participant_labels[1][i] : i \in DOMAIN args.participant_labels[1]}
    ELSE {f.sub : f \in {g \in d : g.dir = args.bids_path}}

\* GroupAFQ(...) finds data for its subjects under bids_path.
HasData(args, d) ==
    /\ Subjects(args, d) # {}
    /\ \A s \in Subjects(args, d) : \E f \in d : f.dir = args.bids_path /\ f.sub = s

\* The files an export / montage call leaves under output_dir.
ExportFiles(afq, what) ==
    CASE what = "profiles" ->
            {File(afq.args.output_dir, s, "profiles", "csv") : s \in afq.subjects}
      [] what = "all_bundles_figure" ->
            {File(afq.args.output_dir, s, "all_bundles_figure", "html") : s \in afq.subjects}
      [] OTHER ->
            {File(afq.args.output_dir, "", "L_SLF1_montage", "png")}

\* The ROI files a bundle definition names, read when bundles are segmented.
BundleRoiFiles(afq) ==
    IF afq.args.bundle_info = Some("bundles") THEN SlfRoiFiles ELSE {}

(***************************************************************************)
(* Execution.                                                              *)
(***************************************************************************)
Running == nb \in Notebooks /\ pc \in DOMAIN Program(nb)

Cur == Program(nb)[pc]

\* The statement raises an exception instead of completing.
Raises(ins) ==
    CASE ins.op = "load"      -> ins.args.file \notin disk
      [] ins.op = "group_afq" -> ~HasData(ins.args, disk)
      [] ins.op = "export"    -> /\ ins.args.what = "profiles"
                                 /\ ~(BundleRoiFiles(env[ins.args.obj][1]) \subseteq disk)
      [] ins.op = "show"      -> ins.args.key \notin env[ins.args.obj][1].subjects
      [] OTHER                -> FALSE

Log(out) == trace' = Append(trace, [nb |-> nb, ins |-> Cur, out |-> out])

Bind(v) == env' = IF Cur.var = "" THEN env ELSE [env EXCEPT ![Cur.var] = Some(v)]

\* The current statement is an `op` statement and completes.
Go(op) ==
    /\ Running
    /\ Cur.op = op
    /\ ~Raises(Cur)
    /\ pc' = pc + 1
    /\ UNCHANGED <<nb, ran, failed, disk0, call, ret>>

\* "not op.exists(path)" replaced by an unconditional write.
OutputMissingAlways(f) == TRUE

\* not op.exists(op.join(out_folder, name))
OutputMissing(f) == f \notin disk

\* window.record that also leaves a second, non-image file next to out_path.
RecordWritesSidecar(f) == {f, [f EXCEPT !.ext = "vtk"]}

\* window.record(scene=scene, out_path=f, size=...): the files it writes.
RecordWrites(f) == {f}

\* scene.clear() that leaves the actors in place.
SceneClearKeeps(s) == s

\* scene.clear()
SceneClear(s) == [s EXCEPT !.actors = <<>>]

\* scene.add(a)
SceneAdd(s, a) == [s EXCEPT !.actors = Append(@, a)]

Init ==
    /\ nb = "none"
    /\ pc = 0
    /\ ran = {}
    /\ failed = {}
    /\ disk \in InitialDisks
    /\ disk0 = disk
    /\ wcount = [f \in VizOutputs |-> 0]
    /\ env = [v \in VarNames |-> None]
    /\ scene = None
    /\ trace = <<>>
    /\ call = None
    /\ ret = None

\* A fresh kernel starts executing a notebook at its first statement.
Start(n) ==
    /\ nb = "none"
    /\ n \notin ran \cup failed
    /\ nb' = n
    /\ pc' = 1
    /\ env' = [v \in VarNames |-> None]
    /\ scene' = None
    /\ trace' = <<>>
    /\ UNCHANGED <<ran, failed, disk, disk0, wcount, call, ret>>

Fetch ==
    /\ Go("fetch")
    /\ disk' = disk \cup FetchFiles(Cur.args.fn, Cur.args.subjects)
    /\ Bind("study")
    /\ Log("done")
    /\ UNCHANGED <<wcount, scene>>

Load ==
    /\ Go("load")
    /\ IF Cur.args.file = T1wFile
       THEN \E shape \in Shapes : Bind(shape)
       ELSE Bind("loaded")
    /\ Log("done")
    /\ UNCHANGED <<disk, wcount, scene>>

Compute ==
    /\ Go("compute")
    /\ Bind("value")
    /\ Log("done")
    /\ UNCHANGED <<disk, wcount, scene>>

LineActor ==
    /\ Go("line_actor")
    /\ Bind(lines_as_tubes(Cur.args.sl, Cur.args.line_width, Cur.args.colors,
                           Cur.args.opacity, Cur.line))
    /\ Log("done")
    /\ UNCHANGED <<disk, wcount, scene>>

ContourActor ==
    /\ Go("contour_actor")
    /\ Bind(contour_from_roi(Cur.args.roi, Cur.args.color, Cur.args.opacity, Cur.line))
    /\ Log("done")
    /\ UNCHANGED <<disk, wcount, scene>>

\* slicers = slice_volume(t1w, x=t1w.shape[0] // 2, z=t1w.shape[-1] // 3)
SliceVolume ==
    /\ Go("slice_volume")
    /\ LET shape == env["t1w_img"][1]
       IN  Bind(slice_volume(shape, Some(shape[1] \div 2), None,
                             Some(shape[3] \div 3), Cur.line))
    /\ Log("done")
    /\ UNCHANGED <<disk, wcount, scene>>

SceneNew ==
    /\ Go("scene_new")
    /\ scene' = Some([actors |-> <<>>, camera |-> "default"])
    /\ Log("done")
    /\ UNCHANGED <<disk, wcount, env>>

SceneAddStep ==
    /\ Go("scene_add")
    /\ scene' = Some(SceneAdd(scene[1], env[Cur.args.actor][1]))
    /\ Log("done")
    /\ UNCHANGED <<disk, wcount, env>>

\* for slicer in slicers: scene.add(slicer)
SceneAddEach ==
    /\ Go("scene_add_each")
    /\ scene' = Some([scene[1] EXCEPT !.actors = @ \o env[Cur.args.actors][1]])
    /\ Log("done")
    /\ UNCHANGED <<disk, wcount, env>>

SceneClearStep ==
    /\ Go("scene_clear")
    /\ scene' = Some(SceneClear(scene[1]))
    /\ Log("done")
    /\ UNCHANGED <<disk, wcount, env>>

SetCamera ==
    /\ Go("set_camera")
    /\ scene' = Some([scene[1] EXCEPT !.camera = "set"])
    /\ Log("done")
    /\ UNCHANGED <<disk, wcount, env>>

\* if not op.exists(path): window.record(scene=scene, out_path=path, ...)
Record ==
    /\ Go("record")
    /\ IF OutputMissing(Cur.args.file)
       THEN /\ disk' = disk \cup RecordWrites(Cur.args.file)
            /\ wcount' = [wcount EXCEPT ![Cur.args.file] = @ + 1]
            /\ Log("wrote")
       ELSE /\ UNCHANGED <<disk, wcount>>
            /\ Log("skipped")
    /\ UNCHANGED <<env, scene>>

\* pf = PanelFigure(num_rows, num_cols, width, height)
PanelFigureNew ==
    /\ Go("panel_figure")
    /\ Bind([num_rows |-> Cur.args.a, num_cols |-> Cur.args.b,
             width |-> Cur.args.c, height |-> Cur.args.d, imgs |-> <<>>])
    /\ Log("done")
    /\ UNCHANGED <<disk, wcount, scene>>

\* pf.add_img(fname, x_coord, y_coord)
AddImg ==
    /\ Go("add_img")
    /\ env' = [env EXCEPT !["pf"] =
                 Some([@[1] EXCEPT !.imgs =
                         Append(@, [fname |-> Cur.args.file,
                                    x |-> Cur.args.x, y |-> Cur.args.y])])]
    /\ Log("done")
    /\ UNCHANGED <<disk, wcount, scene>>

\* if not op.exists(path): pf.format_and_save_figure(path)
SaveFigure ==
    /\ Go("save_figure")
    /\ IF OutputMissing(Cur.args.file)
       THEN /\ disk' = disk \cup {Cur.args.file}
            /\ wcount' = [wcount EXCEPT ![Cur.args.file] = @ + 1]
            /\ Log("wrote")
       ELSE /\ UNCHANGED <<disk, wcount>>
            /\ Log("skipped")
    /\ UNCHANGED <<env, scene>>

GroupAFQNew ==
    /\ Go("group_afq")
    /\ Bind([args |-> Cur.args, subjects |-> Subjects(Cur.args, disk)])
    /\ Log("done")
    /\ UNCHANGED <<disk, wcount, scene>>

\* my_afq.export(what)
Export ==
    /\ Go("export")
    /\ disk' = disk \cup ExportFiles(env[Cur.args.obj][1], Cur.args.what)
    /\ Bind("exported")
    /\ Log("done")
    /\ UNCHANGED <<wcount, scene>>

\* my_afq.group_montage(bundle, (rows, cols), ...)
Montage ==
    /\ Go("montage")
    /\ disk' = disk \cup ExportFiles(env[Cur.args.obj][1], "montage")
    /\ Bind([rows |-> Cur.args.rows, cols |-> Cur.args.cols])
    /\ Log("done")
    /\ UNCHANGED <<wcount, scene>>

\* plotly.io.show(figures[key][0])
Show ==
    /\ Go("show")
    /\ Log("done")
    /\ UNCHANGED <<disk, wcount, env, scene>>

\* An exception stops the notebook at the statement that raised it.
Raise ==
    /\ Running
    /\ Raises(Cur)
    /\ failed' = failed \cup {nb}
    /\ nb' = "none"
    /\ Log("raised")
    /\ UNCHANGED <<pc, ran, disk, disk0, wcount, env, scene, call, ret>>

\* The last statement has completed.
Finish ==
    /\ nb \in Notebooks
    /\ pc = Len(Program(nb)) + 1
    /\ ran' = ran \cup {nb}
    /\ nb' = "none"
    /\ UNCHANGED <<pc, failed, disk, disk0, wcount, env, scene, trace, call, ret>>

Next ==
    \/ \E n \in Notebooks : Start(n)
    \/ Fetch \/ Load \/ Compute \/ LineActor \/ ContourActor \/ SliceVolume
    \/ SceneNew \/ SceneAddStep \/ SceneAddEach \/ SceneClearStep \/ SetCamera
    \/ Record \/ PanelFigureNew \/ AddImg \/ SaveFigure
    \/ GroupAFQNew \/ Export \/ Montage \/ Show
    \/ Raise \/ Finish

Spec == Init /\ [][Next]_vars

(***************************************************************************)
(* slice_volume on its own: every shape and every choice of x, y, z.       *)
(***************************************************************************)
InitSlice ==
    /\ nb = "none"
    /\ pc = 0
    /\ ran = {}
    /\ failed = {}
    /\ disk = {}
    /\ disk0 = {}
    /\ wcount = [f \in VizOutputs |-> 0]
    /\ env = [v \in VarNames |-> None]
    /\ scene = None
    /\ trace = <<>>
    /\ call \in {Some([data |-> s, x |-> x, y |-> y, z |-> z]) :
                    s \in Shapes, x \in Indices, y \in Indices, z \in Indices}
    /\ ret = None

SliceVolumeCall ==
    /\ call # None
    /\ ret = None
    /\ ret' = Some(slice_volume(call[1].data, call[1].x, call[1].y, call[1].z, 0))
    /\ UNCHANGED <<nb, pc, ran, failed, disk, disk0, wcount, env, scene, trace, call>>

NextSlice == SliceVolumeCall

SpecSlice == InitSlice /\ [][NextSlice]_vars

(***************************************************************************)
(* Properties.                                                             *)
(***************************************************************************)
\* The figure a statement of the visualization notebook belongs to, by the
\* section of the notebook it stands in: 1..4 the four renderings, 5 the
\* composite figure, 0 the preparation before them.
FigOfLine(l) ==
    CASE l >= 230 /\ l <= 417 -> 1
      [] l >= 450 /\ l <= 468 -> 2
      [] l >= 514 /\ l <= 553 -> 3
      [] l >= 593 /\ l <= 639 -> 4
      [] l >= 667 /\ l <= 673 -> 5
      [] OTHER -> 0

\* C1: a write step (window.record, format_and_save_figure) of the
\* visualization notebook writes its output file if and only if the file does
\* not exist when the guard is evaluated, and a file that exists is never
\* written again.
C1_WriteIffMissing ==
    [][\A f \in VizOutputs :
         /\ (wcount'[f] # wcount[f]) => (f \notin disk)
         /\ (Running /\ Cur.op \in {"record", "save_figure"} /\ Cur.args.file = f)
              => ((wcount'[f] = wcount[f] + 1) <=> (f \notin disk))]_vars

\* One run of the visualization notebook skipped an existing figure and
\* wrote a missing one.
C1_Witness ==
    /\ \E i \in DOMAIN trace : trace[i].ins.op = "record" /\ trace[i].out = "skipped"
    /\ \E i \in DOMAIN trace : trace[i].ins.op = "record" /\ trace[i].out = "wrote"
    /\ \E i \in DOMAIN trace : trace[i].ins.op = "save_figure"

\* The dataset (directory under afq_home) a statement reads, if any.
ReadsDataset(ins) ==
    CASE ins.op = "load" /\ ins.args.file.dir \in {"hbn_afq", "hbn_qsiprep", "stanford_hardi"}
            -> Some(ins.args.file.dir)
      [] ins.op = "group_afq" -> Some(ins.args.bids_path)
      [] OTHER -> None

\* The dataset a fetch statement downloads.
FetchesDataset(ins) ==
    CASE ins.op = "fetch" /\ ins.args.fn = "fetch_hbn_preproc" -> Some("hbn_qsiprep")
      [] ins.op = "fetch" /\ ins.args.fn = "fetch_hbn_afq"     -> Some("hbn_afq")
      [] OTHER -> None

FetchedBefore(i) ==
    \E j \in 1..(i - 1) : FetchesDataset(trace[j].ins) = ReadsDataset(trace[i].ins)

\* C2 (as claimed): in every notebook a dataset-fetch step is executed before
\* the first step that reads files of that dataset.
C2_EveryNotebookFetchesFirst ==
    \A i \in DOMAIN trace :
        ReadsDataset(trace[i].ins) # None => FetchedBefore(i)

\* The part of C2 that the notebooks satisfy: in the visualization and SLF
\* notebooks every step that reads a dataset comes after the fetch of that
\* dataset; the RecoBundles notebook executes no fetch step at all.
FetchFirstWhereFetched ==
    \A i \in DOMAIN trace :
        /\ (trace[i].nb \in {"viz", "slf"} /\ ReadsDataset(trace[i].ins) # None)
              => FetchedBefore(i)
        /\ trace[i].nb = "reco" => trace[i].ins.op # "fetch"


\* The scene.add statements of figure k in the notebook.
AddsOfFig(k) ==
    {i \in DOMAIN VizProgram :
        /\ VizProgram[i].op \in {"scene_add", "scene_add_each"}
        /\ FigOfLine(VizProgram[i].line) = k}

\* C3: statements execute one at a time in notebook order: when a
\* window.record step executes, every scene.add of its figure has completed
\* and the scene.clear of the next figure has not; when the PanelFigure is
\* built, all four record steps have executed; each step completes before the
\* next begins.
C3_SequentialOrder ==
    /\ nb = "viz" => Len(trace) = pc - 1
    /\ \A i \in DOMAIN trace :
          trace[i].nb = "viz" =>
            /\ trace[i].ins.op = "record" =>
                 LET k == FigOfLine(trace[i].ins.line)
                 IN  /\ \A a \in AddsOfFig(k) :
                            \E j \in 1..(i - 1) : trace[j].ins = VizProgram[a]
                     /\ \A j \in 1..(i - 1) :
                            ~(/\ trace[j].ins.op = "scene_clear"
                              /\ FigOfLine(trace[j].ins.line) > k)
            /\ trace[i].ins.op = "panel_figure" =>
                 \A k \in 1..4 :
                    \E j \in 1..(i - 1) :
                       /\ trace[j].ins.op = "record"
                       /\ FigOfLine(trace[j].ins.line) = k

\* The composite figure was assembled after the third figure was recorded
\* with its core actors in the scene.
C3_Witness ==
    /\ nb = "viz"
    /\ \E i \in DOMAIN trace : trace[i].ins.op = "panel_figure"
    /\ \E i \in DOMAIN trace :
          trace[i].ins.op = "record" /\ FigOfLine(trace[i].ins.line) = 3
          /\ trace[i].out = "wrote"

\* C4 (as claimed): over a run the set of files on disk changes only by the
\* addition of PNG figures and HTML visualizations.
C4_OnlyPngAndHtmlPersisted ==
    /\ disk0 \subseteq disk
    /\ \A f \in disk \ disk0 : f.ext \in {"png", "html"}

\* C4 (amended): no step deletes a file; a step that calls neither a dataset
\* fetcher (afd.*) nor a GroupAFQ object adds only PNG figures or HTML
\* visualizations; the fetch steps add the downloaded dataset files and the
\* GroupAFQ steps add derivative files under output_dir.
C4_OtherFilesOnlyFromFetchAndGroupAFQ ==
    [][/\ disk \subseteq disk'
       /\ \A f \in disk' \ disk :
             f.ext \notin {"png", "html"}
                => (Running /\ Cur.op \in {"fetch", "group_afq", "export", "montage"})]_vars

\* A run left a downloaded volume, a derivative table, a PNG and an HTML file
\* that were not there before.
C4_Witness ==
    /\ \E f \in disk \ disk0 : f.ext = "nii.gz"
    /\ \E f \in disk \ disk0 : f.ext = "csv"
    /\ \E f \in disk \ disk0 : f.ext = "png" /\ f.dir = "viz_results"
    /\ \E f \in disk \ disk0 : f.ext = "html"

\* How many of x, y, z are given.
NumGiven(c) ==
    (IF c.x = None THEN 0 ELSE 1) + (IF c.y = None THEN 0 ELSE 1)
    + (IF c.z = None THEN 0 ELSE 1)

\* The slicer objects that belong to the given dimensions.
GivenObjs(c) ==
    (IF c.x = None THEN {} ELSE {"slicer_actor_x"})
    \cup (IF c.y = None THEN {} ELSE {"slicer_actor_y"})
    \cup (IF c.z = None THEN {} ELSE {"slicer_actor_z"})

\* C5: slice_volume returns as many slicers as there are arguments among
\* x, y, z that are not None, exactly one per given dimension.
C5_OneSlicerPerGivenDim ==
    ret # None =>
        LET r == ret[1]
            c == call[1]
        IN  /\ Len(r) = NumGiven(c)
            /\ {r[i].obj : i \in DOMAIN r} = GivenObjs(c)
            /\ \A i, j \in DOMAIN r : r[i].obj = r[j].obj => i = j

\* slice_volume returned two slicers for x = 0 and z given, y not given.
C5_Witness ==
    /\ ret # None
    /\ call[1].x = Some(0)
    /\ call[1].y = None
    /\ call[1].z # None
    /\ Len(ret[1]) = 2

\* The display extent a slicer for index k along dimension d should have.
WantedExtent(c, obj) ==
    CASE obj = "slicer_actor_x" ->
            <<c.x[1], c.x[1], 0, c.data[2] - 1, 0, c.data[3] - 1>>
      [] obj = "slicer_actor_y" ->
            <<0, c.data[1] - 1, c.y[1], c.y[1], 0, c.data[3] - 1>>
      [] OTHER ->
            <<0, c.data[1] - 1, 0, c.data[2] - 1, c.z[1], c.z[1]>>

\* C6: the slicer for a given index k along dimension d has display extent
\* [k, k] on d and [0, shape[e] - 1] on each of the two other dimensions.
C6_FullExtentOnOtherDims ==
    ret # None =>
        \A i \in DOMAIN ret[1] :
            ret[1][i].extent = Some(WantedExtent(call[1], ret[1][i].obj))

\* slice_volume returned three slicers for a volume whose sizes differ.
C6_Witness ==
    /\ ret # None
    /\ Len(ret[1]) = 3
    /\ call[1].data[1] # call[1].data[2]
    /\ call[1].data[2] # call[1].data[3]

\* C7: the composite figure holds exactly one panel for each of the four
\* recorded images, at distinct positions inside the declared grid, and no
\* position of the grid is left without an image.
C7_FourPanelsFillGrid ==
    (\E i \in DOMAIN trace : trace[i].ins.op = "save_figure") =>
        LET p == env["pf"][1]
            n == DOMAIN p.imgs
        IN  /\ {p.imgs[i].fname : i \in n}
                  = {OutFile("arc_cst1"), OutFile("arc_cst2"),
                     OutFile("arc_cst3"), OutFile("arc_cst4")}
            /\ Len(p.imgs) = 4
            /\ \A i, j \in n :
                  (p.imgs[i].x = p.imgs[j].x /\ p.imgs[i].y = p.imgs[j].y) => i = j
            /\ \A i \in n :
                  /\ p.imgs[i].x \in 0..(p.num_cols - 1)
                  /\ p.imgs[i].y \in 0..(p.num_rows - 1)
            /\ \A r \in 0..(p.num_rows - 1), c \in 0..(p.num_cols - 1) :
                  \E i \in n : p.imgs[i].x = c /\ p.imgs[i].y = r

\* C8: in the RecoBundles notebook abd.reco_bd(16) is the value passed as
\* GroupAFQ's segmentation_params argument.
C8_RecoBdIsSegmentationParams ==
    env["myafq"] # None =>
        env["myafq"][1].args.segmentation_params = Some("reco_bd_16")

\* C9: the SLF notebook fetches twelve subjects, gives GroupAFQ twelve
\* participant labels, and fills the 3 x 4 = 12 slots of the group montage.
C9_TwelveSubjects ==
    env["montage"] # None =>
        LET fetched == {trace[i].ins.args.subjects :
                           i \in {j \in DOMAIN trace :
                                    /\ trace[j].ins.op = "fetch"
                                    /\ trace[j].ins.args.fn = "fetch_hbn_preproc"}}
            labels == env["my_afq"][1].args.participant_labels[1]
            m == env["montage"][1]
        IN  /\ \A subs \in fetched : Len(subs) = 12
            /\ Len(labels) = 12
            /\ m.rows * m.cols = 12
            /\ Cardinality(env["my_afq"][1].subjects) = m.rows * m.cols

\* C10: when a window.record step executes, the scene holds exactly the
\* actors added for that figure since the last scene.clear: the two bundle
\* actors, the slicers, and for figure 3 the two core actors, for figure 4 the
\* two waypoint ROI actors; every actor other than a slicer was created for
\* this figure.
C10_SceneHoldsOnlyThisFigure ==
    (Running /\ nb = "viz" /\ Cur.op = "record") =>
        LET k == FigOfLine(Cur.line)
            A == scene[1].actors
            extra ==
                CASE k = 3 -> <<env["core_arc_actor"][1], env["core_cst_actor"][1]>>
                  [] k = 4 -> <<env["waypoint1_actor"][1], env["waypoint2_actor"][1]>>
                  [] OTHER -> <<>>
        IN  /\ A = <<env["arc_actor"][1], env["cst_actor"][1]>> \o env["slicers"][1] \o extra
            /\ \A i \in DOMAIN A :
                  IF A[i].kind = "slicer"
                  THEN A[i].created = 300
                  ELSE FigOfLine(A[i].created) = k
            /\ k = 1 => A[1].colors = "rgb_orientation" /\ A[2].colors = "rgb_orientation"
            /\ k = 2 => A[1].colors = "tab20_18" /\ A[2].colors = "tab20_2"
            /\ k = 3 => A[1].opacity = 10 /\ A[2].opacity = 10
            /\ k = 4 => A[Len(A)].kind = "contour" /\ A[Len(A) - 1].kind = "contour"

\* The fourth record step is about to execute with two bundle actors, two
\* slicers and two waypoint ROI actors in the scene.
C10_Witness ==
    /\ Running
    /\ nb = "viz"
    /\ Cur.op = "record"
    /\ FigOfLine(Cur.line) = 4
    /\ Len(scene[1].actors) = 6

====
